---- MODULE Spec2Model ----
(***************************************************************************)
(* Model of the GradCafe incremental update pipeline (module_5):           *)
(*   scrape_update.py  - listing traversal, de-duplication, detail fetch   *)
(*   load_update.py    - insert-or-ignore loader over the applicants table *)
(***************************************************************************)
EXTENDS Integers, Sequences, FiniteSets, TLC

(***************************************************************************)
(* Bounds of the model.  SURVEY_PAGES and CHUNK_SURVEY_PAGES are the       *)
(* program's 1550 and 25 scaled down so that chunk boundaries, the end of  *)
(* the page range and early stop all occur within a few pages.             *)
(***************************************************************************)
SURVEY_PAGES == 4
CHUNK_SURVEY_PAGES == 3
MaxRowsPerPage == 2
MaxInput == 2

(* Program constants, as in the source. *)
STOP_AFTER_PAGES_WITH_NO_NEW == 2
RETRIES == 3
\* BACKOFF_S = 1.5 seconds, counted in half seconds
BACKOFF_HALF_S == 3

(***************************************************************************)
(* URLs.  A URL is the 5-tuple urlparse yields, with the path kept as      *)
(* (abs, segs): abs = the path starts with "/", segs = the path split on   *)
(* "/".  NoUrl stands for None and for "" (both are falsy in the source).  *)
(***************************************************************************)
Url(scheme, netloc, abs, segs, query, fragment) ==
    [scheme |-> scheme, netloc |-> netloc, abs |-> abs, segs |-> segs,
     query |-> query, fragment |-> fragment]

NoUrl == Url("", "", FALSE, <<>>, "", "")

TargetHost == "www.thegradcafe.com"

\* BASE_URL = "https://www.thegradcafe.com/survey/", url = f"{BASE_URL}?page={page}"
PageUrl(page) == Url("https", TargetHost, TRUE, <<"survey", "">>, "page", "")

\* netloc.endswith("thegradcafe.com"), over the hosts of the model
\* ("", "example.com", "[::1" and the three below).
EndsWithGradcafe(netloc) ==
    netloc \in {"thegradcafe.com", "www.thegradcafe.com", "notthegradcafe.com"}

\* urlunsplit followed by urlparse: with a netloc, a non-empty relative path
\* gets its leading "/".
Reparse(u) ==
    IF u.netloc # "" /\ u.segs # <<>> /\ ~u.abs THEN [u EXCEPT !.abs = TRUE] ELSE u

\* urlparse raises ValueError ("Invalid IPv6 URL") for a netloc with an
\* unmatched bracket; "[::1" is the one such netloc of the model.
UrlparseRaises(url) == url.netloc = "[::1"

\* Variant of CanonicalHost: the bare host is kept.
CanonicalHostKept(netloc) == netloc

\* if netloc == "thegradcafe.com": netloc = "www.thegradcafe.com"
CanonicalHost(netloc) ==
    IF netloc = "thegradcafe.com" THEN "www.thegradcafe.com" ELSE netloc

\* _canonical_result_url; "except Exception: return url" gives the argument back.
_canonical_result_url(url) ==
    IF url = NoUrl THEN NoUrl
    ELSE IF UrlparseRaises(url) THEN url
    ELSE LET clean == [url EXCEPT !.fragment = "", !.query = ""]
             netloc0 == IF clean.netloc # "" THEN clean.netloc ELSE "www.thegradcafe.com"
             netloc == CanonicalHost(netloc0)
         IN  Reparse([clean EXCEPT !.scheme = "https", !.netloc = netloc])

\* _valid_result_url: p.netloc.endswith("thegradcafe.com") and p.path.startswith("/result/")
_valid_result_url(url) ==
    IF url = NoUrl THEN FALSE
    ELSE IF UrlparseRaises(url) THEN FALSE
    ELSE /\ EndsWithGradcafe(url.netloc)
         /\ url.abs /\ Len(url.segs) >= 2 /\ url.segs[1] = "result"

\* urljoin(source_url, href) for the hrefs of the model (no dot segments).
urljoin(base, href) ==
    IF href.scheme # "" /\ href.scheme # base.scheme THEN href
    ELSE IF href.netloc # "" THEN [href EXCEPT !.scheme = base.scheme]
    ELSE IF href.segs = <<>> /\ ~href.abs
         THEN [base EXCEPT !.query = IF href.query # "" THEN href.query ELSE base.query,
                           !.fragment = href.fragment]
    ELSE [href EXCEPT !.scheme = base.scheme, !.netloc = base.netloc, !.abs = TRUE,
                      !.segs = IF href.abs THEN href.segs
                               ELSE SubSeq(base.segs, 1, Len(base.segs) - 1) \o href.segs]

\* href.startswith("/result/") or "/result/" in href
HrefLooksLikeResult(href) ==
    \E i \in 1..Len(href.segs) :
        /\ href.segs[i] = "result"
        /\ i < Len(href.segs)
        /\ (i > 1 \/ href.abs \/ href.netloc # "")

RECURSIVE FirstResultHref(_)
FirstResultHref(hrefs) ==
    IF hrefs = <<>> THEN NoUrl
    ELSE IF HrefLooksLikeResult(Head(hrefs)) THEN Head(hrefs)
    ELSE FirstResultHref(Tail(hrefs))

\* _extract_entry_url: the first anchor whose href contains "/result/",
\* joined to the page URL and canonicalized; None when there is none.
_extract_entry_url(row, source_url) ==
    LET h == FirstResultHref(row.hrefs)
    IN  IF h = NoUrl THEN NoUrl ELSE _canonical_result_url(urljoin(source_url, h))

(***************************************************************************)
(* HTTP fetching.  One call of _fetch_html either returns the body ("ok",  *)
(* or "empty" for an empty body) or raises.  urlopen raises HTTPError for  *)
(* an error status, URLError for a failed connect, and socket.timeout /    *)
(* TimeoutError for a timeout; a connection closed or reset while the      *)
(* response is read surfaces as http.client.RemoteDisconnected (a          *)
(* ConnectionResetError) or http.client.IncompleteRead, neither of which   *)
(* is a URLError.                                                          *)
(***************************************************************************)
FetchOutcomes ==
    {"ok", "empty", "HTTPError", "URLError", "timeout", "RemoteDisconnected", "IncompleteRead"}

\* except (HTTPError, URLError, socket.timeout, TimeoutError)
Caught(kind) == kind \in {"HTTPError", "URLError", "timeout"}

\* The loop of _safe_fetch_html from attempt `attempt` on; outs[k] is what the
\* k-th call of _fetch_html does.  attempts = the calls made, sleeps = the
\* time.sleep arguments (in half seconds), in order.
RECURSIVE SafeFetchFrom(_, _, _)
SafeFetchFrom(outs, attempt, sleeps) ==
    IF attempt > RETRIES
    THEN [ret |-> "None", attempts |-> attempt - 1, sleeps |-> sleeps]
    ELSE IF outs[attempt] \in {"ok", "empty"}
    THEN [ret |-> IF outs[attempt] = "ok" THEN "payload" ELSE "empty",
          attempts |-> attempt, sleeps |-> sleeps]
    ELSE IF Caught(outs[attempt])
    THEN SafeFetchFrom(outs, attempt + 1, Append(sleeps, BACKOFF_HALF_S * attempt))
    ELSE [ret |-> "raised", attempts |-> attempt, sleeps |-> sleeps]

\* _safe_fetch_html: for attempt in range(1, RETRIES + 1)
_safe_fetch_html(outs) == SafeFetchFrom(outs, 1, <<>>)

AttemptOutcomes == [1..RETRIES -> FetchOutcomes]

\* What a call of _safe_fetch_html can give its caller.
SafeFetchResults == {_safe_fetch_html(outs).ret : outs \in AttemptOutcomes}

TIMEOUT_S == 30
DETAIL_FUTURE_TIMEOUT_S == 60

RECURSIVE SumSeq(_)
SumSeq(q) == IF q = <<>> THEN 0 ELSE Head(q) + SumSeq(Tail(q))

\* The least time, in half seconds, a call of _safe_fetch_html takes: TIMEOUT_S
\* for each attempt that times out, and the back-off sleeps.
FetchHalfSeconds(outs) ==
    LET r == _safe_fetch_html(outs)
    IN  SumSeq(r.sleeps) + 2 * TIMEOUT_S * Cardinality({k \in 1..r.attempts : outs[k] = "timeout"})

\* One detail task, _parse_result_page(url): what its fetch gives, and whether
\* the task takes longer than DETAIL_FUTURE_TIMEOUT_S.
TaskOutcome(outs) ==
    [ret |-> _safe_fetch_html(outs).ret,
     late |-> FetchHalfSeconds(outs) > 2 * DETAIL_FUTURE_TIMEOUT_S]

TaskOutcomes == {TaskOutcome(outs) : outs \in AttemptOutcomes}

(***************************************************************************)
(* The listing pages the site may serve.  A row is its number of <td>      *)
(* cells and the hrefs of its anchors, in document order.                  *)
(***************************************************************************)
HrefResult1 == Url("", "", TRUE, <<"result", "1">>, "", "")
HrefResult1Alt == Url("http", "thegradcafe.com", TRUE, <<"result", "1">>, "ref", "top")
HrefResult2 == Url("https", "www.thegradcafe.com", TRUE, <<"result", "2">>, "", "")
HrefOtherHost == Url("https", "example.com", TRUE, <<"result", "3">>, "", "")
HrefNested == Url("", "", TRUE, <<"x", "result", "6">>, "", "")
HrefNav == Url("", "", TRUE, <<"survey", "">>, "page", "")

Range(f) == {f[i] : i \in DOMAIN f}

Row(ncols, hrefs) == [ncols |-> ncols, hrefs |-> hrefs]

Rows ==
    { Row(5, <<>>), Row(5, <<HrefResult1>>), Row(5, <<HrefResult1Alt>>),
      Row(5, <<HrefResult2>>), Row(5, <<HrefNav, HrefResult2>>),
      Row(5, <<HrefOtherHost>>), Row(5, <<HrefNested>>),
      Row(4, <<HrefResult2>>) }

SeqsUpTo(S, n) == UNION {[1..k -> S] : k \in 0..n}

Pages == SeqsUpTo(Rows, MaxRowsPerPage)

\* The url column of the applicants table before the run.
DbUrls ==
    { Url("http", "thegradcafe.com", TRUE, <<"result", "1">>, "old", ""),
      Url("https", "www.thegradcafe.com", TRUE, <<"result", "2">>, "", "") }

\* Detail fields of a record the listing parser creates: all None.
AbsentDetail == [degree |-> "None", notes_of |-> NoUrl]

\* _parse_survey_page: one record per row with at least 5 cells.
RECURSIVE _parse_survey_page(_, _)
_parse_survey_page(rows, page) ==
    IF rows = <<>> THEN <<>>
    ELSE LET row == Head(rows)
             rest == _parse_survey_page(Tail(rows), page)
         IN  IF row.ncols < 5 THEN rest
             ELSE <<[entry_url |-> _extract_entry_url(row, PageUrl(page)),
                     source_page |-> page,
                     detail |-> AbsentDetail]>> \o rest

\* load_existing_urls_from_db: the canonical form of every non-empty url.
load_existing_urls_from_db(db) ==
    {_canonical_result_url(u) : u \in db} \ {NoUrl}

\* Variant of SeedSeen: the index starts empty instead of from the store.
SeedSeenEmpty(existing) == {}

\* seen_urls: set[str] = set(existing_urls)
SeedSeen(existing) == existing

\* Variant of DedupStep without the "if u in seen_urls: continue" test.
DedupStepNoSeenCheck(st, rec) ==
    LET u == _canonical_result_url(rec.entry_url)
    IN  IF ~_valid_result_url(u) THEN st
        ELSE [records |-> Append(st.records, [rec EXCEPT !.entry_url = u]),
              seen |-> st.seen \cup {u},
              chunk |-> Append(st.chunk, Len(st.records) + 1),
              added |-> st.added + 1]

\* Variant of DedupStep without seen_urls.add(u).
DedupStepNoSeenAdd(st, rec) ==
    LET u == _canonical_result_url(rec.entry_url)
    IN  IF ~_valid_result_url(u) THEN st
        ELSE IF u \in st.seen THEN st
        ELSE [records |-> Append(st.records, [rec EXCEPT !.entry_url = u]),
              seen |-> st.seen,
              chunk |-> Append(st.chunk, Len(st.records) + 1),
              added |-> st.added + 1]

\* Variant of DedupStep without the "if not _valid_result_url(u): continue" test.
DedupStepNoValidCheck(st, rec) ==
    LET u == _canonical_result_url(rec.entry_url)
    IN  IF u \in st.seen THEN st
        ELSE [records |-> Append(st.records, [rec EXCEPT !.entry_url = u]),
              seen |-> st.seen \cup {u},
              chunk |-> Append(st.chunk, Len(st.records) + 1),
              added |-> st.added + 1]

\* One iteration of "for rec in page_records" of scrape_data;
\* st = [records, seen, chunk, added].
DedupStep(st, rec) ==
    LET u == _canonical_result_url(rec.entry_url)
    IN  IF ~_valid_result_url(u) THEN st
        ELSE IF u \in st.seen THEN st
        ELSE [records |-> Append(st.records, [rec EXCEPT !.entry_url = u]),
              seen |-> st.seen \cup {u},
              chunk |-> Append(st.chunk, Len(st.records) + 1),
              added |-> st.added + 1]

RECURSIVE DedupPage(_, _)
DedupPage(st, page_records) ==
    IF page_records = <<>> THEN st
    ELSE DedupPage(DedupStep(st, Head(page_records)), Tail(page_records))

(***************************************************************************)
(* State.                                                                  *)
(***************************************************************************)
VARIABLES
    \* scrape_data
    pc,                     \* where scrape_data is
    page,                   \* the loop variable of "for page in range(...)"
    existing_urls,          \* load_existing_urls_from_db()
    seen_urls,
    records,
    chunk_new_indices,      \* indices into records (1-based here, 0-based in the source)
    pages_with_no_new,
    total_failed_details,
    checkpoint,             \* the content of UPDATE_OUTPUT_JSON
    \* _fetch_details_for_indices
    detail_ctx,             \* the call site: "early", "chunk" or "final"
    futures,                \* record index -> "pending" or how its task ended, for the tasks submitted
    updated,
    failed,
    \* history of the run (not program state)
    page_log,               \* the last pages visited: was each fetched, how many records it added
    row_urls,               \* canonical URL -> rows parsed with it so far (capped at 2)
    dispatch_count,         \* per record: detail tasks submitted for it
    interrupted,            \* a KeyboardInterrupt has been delivered
    site,                   \* the listing pages of the end-to-end scenario; <<>> for any site
    \* _safe_fetch_html called on its own
    fetch_outs,             \* what each call of _fetch_html does
    fetch_res,              \* the result of the call, once made
    \* load_update.main and the applicants table
    cleaned_file,           \* CLEANED_UPDATE_PATH as each invocation finds it: exists, data
    store,                  \* committed rows of applicants
    ld,                     \* per loader invocation: its position and transaction
    first_run_store,        \* history: the table after the first complete run
    \* app.py
    job_running,
    job_last_message,
    analysis_cache,         \* <<>> or <<v>>: the cards computed from version v of the table
    analysis_last_updated,  \* 0 for None, else the number of the refresh that set it
    thread,                 \* per POST /pull-data: where its run_update_pipeline thread is
    pull_status,            \* per POST /pull-data: 0 before it is sent, then its status code
    ua,                     \* per POST /update-analysis: where its handler is
    ua_status,              \* per POST /update-analysis: 0 until answered, then its status code
    db_version,             \* how many LOAD stages have changed the applicants table
    url_call,               \* one call of a URL helper: its argument and what it returned
    pool                    \* per task submitted to the ThreadPoolExecutor: where it is

scrape_vars ==
    <<pc, page, existing_urls, seen_urls, records, chunk_new_indices, pages_with_no_new,
      total_failed_details, checkpoint, detail_ctx, futures, updated, failed,
      page_log, row_urls, dispatch_count, interrupted>>
fetch_vars == <<fetch_outs, fetch_res>>
load_vars == <<cleaned_file, store, ld, first_run_store>>
app_vars ==
    <<job_running, job_last_message, analysis_cache, analysis_last_updated,
      thread, pull_status, ua, ua_status, db_version>>
helper_vars == <<url_call, pool>>
vars == <<scrape_vars, fetch_vars, load_vars, app_vars, site, helper_vars>>

NoFutures == [i \in {} |-> "pending"]
NoCheckpoint == [written |-> FALSE, data |-> <<>>]

\* Variant of save_data: only the newest record is written.
save_data_newest(recs) ==
    [written |-> TRUE, data |-> IF recs = <<>> THEN <<>> ELSE <<recs[Len(recs)]>>]

\* save_data(records, UPDATE_OUTPUT_JSON): the file is overwritten wholesale.
save_data(recs) == [written |-> TRUE, data |-> recs]

FetchIdle == /\ fetch_outs = <<>> /\ fetch_res = [ret |-> "unused", attempts |-> 0, sleeps |-> <<>>]
LoadIdle ==
    /\ cleaned_file = [exists |-> FALSE, data |-> <<>>]
    /\ store = <<>>
    /\ ld = <<>>
    /\ first_run_store = [done |-> FALSE, rows |-> <<>>]
ScrapeIdle ==
    /\ pc = "off" /\ page = 0 /\ existing_urls = {} /\ seen_urls = {} /\ records = <<>>
    /\ chunk_new_indices = <<>> /\ pages_with_no_new = 0 /\ total_failed_details = 0
    /\ checkpoint = NoCheckpoint /\ detail_ctx = "none" /\ futures = NoFutures
    /\ updated = 0 /\ failed = 0 /\ page_log = <<>> /\ row_urls = <<>>
    /\ dispatch_count = <<>> /\ interrupted = FALSE /\ site = <<>>
AppIdle ==
    /\ job_running = FALSE /\ job_last_message = "off"
    /\ analysis_cache = <<>> /\ analysis_last_updated = 0
    /\ thread = <<>> /\ pull_status = <<>> /\ ua = <<>> /\ ua_status = <<>>
    /\ db_version = 0
NoUrlCall == [op |-> "off", x |-> NoUrl, out |-> NoUrl, again |-> NoUrl, valid |-> FALSE]
HelpersIdle == url_call = NoUrlCall /\ pool = <<>>

(***************************************************************************)
(* scrape_data.                                                            *)
(***************************************************************************)
\* The canonical URLs a parsed row of the model can carry.
RowUrlUniverse ==
    {u \in {_canonical_result_url(urljoin(PageUrl(1), h)) : h \in UNION {Range(r.hrefs) : r \in Rows}} :
        _valid_result_url(u)}

\* The state after the lines from "existing_urls = load_existing_urls_from_db()"
\* to "pages_with_no_new = 0".
ScrapeInit ==
    /\ \E db \in SUBSET DbUrls : existing_urls = load_existing_urls_from_db(db)
    /\ seen_urls = SeedSeen(existing_urls)
    /\ records = <<>>
    /\ chunk_new_indices = <<>>
    /\ total_failed_details = 0
    /\ pages_with_no_new = 0
    /\ pc = "loop"
    /\ page = 1
    /\ checkpoint = NoCheckpoint
    /\ detail_ctx = "none" /\ futures = NoFutures /\ updated = 0 /\ failed = 0
    /\ page_log = <<>>
    /\ row_urls = [u \in RowUrlUniverse |-> 0]
    /\ dispatch_count = <<>>
    /\ interrupted = FALSE

\* page_log keeps the last STOP_AFTER_PAGES_WITH_NO_NEW pages visited.
LogPage(log, entry) ==
    LET l == Append(log, entry)
    IN  IF Len(l) > STOP_AFTER_PAGES_WITH_NO_NEW THEN Tail(l) ELSE l

\* Variant of LoopNext: the loop has no last page.
LoopNextUnbounded(p) == "loop"

\* The for loop moves to its next page, or ends after page SURVEY_PAGES.
LoopNext(p) == IF p + 1 > SURVEY_PAGES THEN "final" ELSE "loop"

RECURSIVE CountRows(_, _)
CountRows(cnt, page_records) ==
    IF page_records = <<>> THEN cnt
    ELSE LET u == Head(page_records).entry_url
         IN  CountRows(IF u \in DOMAIN cnt /\ cnt[u] < 2 THEN [cnt EXCEPT ![u] = @ + 1] ELSE cnt,
                       Tail(page_records))

detail_vars == <<detail_ctx, futures, updated, failed>>

\* scrape_data touches neither the stand-alone fetch nor the loader.
ScrapeOnly == UNCHANGED <<fetch_vars, load_vars, app_vars, site, helper_vars>>

\* html = _safe_fetch_html(url) raises: the exception is no KeyboardInterrupt
\* and leaves scrape_data.
ListingFetchRaises ==
    /\ pc = "loop"
    /\ "raised" \in SafeFetchResults
    /\ pc' = "crashed"
    /\ UNCHANGED <<page, existing_urls, seen_urls, records, chunk_new_indices,
                   pages_with_no_new, total_failed_details, checkpoint, detail_vars,
                   page_log, row_urls, dispatch_count, interrupted>>
    /\ ScrapeOnly

\* if not html: continue
ListingFetchFails ==
    /\ pc = "loop"
    /\ \E res \in SafeFetchResults : res \in {"None", "empty"}
    /\ page_log' = LogPage(page_log, [fetched |-> FALSE, added |-> 0])
    /\ page' = page + 1
    /\ pc' = LoopNext(page)
    /\ UNCHANGED <<existing_urls, seen_urls, records, chunk_new_indices,
                   pages_with_no_new, total_failed_details, checkpoint, detail_vars,
                   row_urls, dispatch_count, interrupted>>
    /\ ScrapeOnly

\* The early-stop counter after a parsed page that added `added` records.
NoNewCount(count, added) == IF added = 0 THEN count + 1 ELSE 0

\* A listing page is fetched and parsed: the dedup loop, the early-stop
\* counter, and the choice between early stop, chunk boundary and sleep.
ListingPage(rows) ==
    /\ pc = "loop"
    /\ "payload" \in SafeFetchResults
    /\ LET page_records == _parse_survey_page(rows, page)
           st == DedupPage([records |-> records, seen |-> seen_urls,
                            chunk |-> chunk_new_indices, added |-> 0], page_records)
           no_new == NoNewCount(pages_with_no_new, st.added)
       IN  /\ records' = st.records
           /\ seen_urls' = st.seen
           /\ chunk_new_indices' = st.chunk
           /\ dispatch_count' = dispatch_count \o [i \in 1..st.added |-> 0]
           /\ pages_with_no_new' = no_new
           /\ page_log' = LogPage(page_log, [fetched |-> TRUE, added |-> st.added])
           /\ row_urls' = CountRows(row_urls, page_records)
           /\ IF no_new >= STOP_AFTER_PAGES_WITH_NO_NEW
              THEN IF st.chunk # <<>>
                   THEN pc' = "detail" /\ detail_ctx' = "early"
                   ELSE pc' = "final" /\ UNCHANGED detail_ctx
              ELSE IF page % CHUNK_SURVEY_PAGES = 0 /\ st.chunk # <<>>
                   THEN pc' = "detail" /\ detail_ctx' = "chunk"
                   ELSE pc' = "sleep" /\ UNCHANGED detail_ctx
    /\ UNCHANGED <<page, existing_urls, total_failed_details, checkpoint,
                   futures, updated, failed, interrupted>>
    /\ ScrapeOnly

\* time.sleep(DELAY_BETWEEN_SURVEY_PAGES_S), then the next iteration.
Sleep ==
    /\ pc = "sleep"
    /\ page' = page + 1
    /\ pc' = LoopNext(page)
    /\ UNCHANGED <<existing_urls, seen_urls, records, chunk_new_indices,
                   pages_with_no_new, total_failed_details, checkpoint, detail_vars,
                   page_log, row_urls, dispatch_count, interrupted>>
    /\ ScrapeOnly

(***************************************************************************)
(* _fetch_details_for_indices(records, chunk_new_indices).                 *)
(***************************************************************************)
\* What _parse_result_page(url) returns when the page is fetched: fields read
\* from that URL's page.  Without a payload every field is None.
DegreeValues == {"PhD"}
ParsedDetail(url, degree) == [degree |-> degree, notes_of |-> url]
EmptyDetail == [degree |-> "None", notes_of |-> NoUrl]

\* The tasks list: the indices whose canonical URL is valid.
DetailTasks(recs, indices) ==
    {i \in Range(indices) : _valid_result_url(_canonical_result_url(recs[i].entry_url))}

\* tasks are built (records[i]["entry_url"] = u) and submitted to the pool.
DetailStart ==
    /\ pc = "detail"
    /\ LET tasks == DetailTasks(records, chunk_new_indices)
       IN  /\ records' = [i \in DOMAIN records |->
                            IF i \in tasks
                            THEN [records[i] EXCEPT !.entry_url = _canonical_result_url(@)]
                            ELSE records[i]]
           /\ futures' = [i \in tasks |-> "pending"]
           /\ dispatch_count' = [i \in DOMAIN dispatch_count |->
                                   IF i \in tasks THEN dispatch_count[i] + 1
                                   ELSE dispatch_count[i]]
    /\ updated' = 0
    /\ failed' = 0
    /\ pc' = "detail_wait"
    /\ UNCHANGED <<page, existing_urls, seen_urls, chunk_new_indices, pages_with_no_new,
                   total_failed_details, checkpoint, detail_ctx, page_log, row_urls,
                   interrupted>>
    /\ ScrapeOnly

\* as_completed yields the future of record i; fut.result() raises.
DetailTaskRaises(i) ==
    /\ pc = "detail_wait"
    /\ i \in DOMAIN futures /\ futures[i] = "pending"
    /\ \E o \in TaskOutcomes : o.ret = "raised"
    /\ futures' = [futures EXCEPT ![i] = "raised"]
    /\ failed' = failed + 1
    /\ UNCHANGED <<pc, page, existing_urls, seen_urls, records, chunk_new_indices,
                   pages_with_no_new, total_failed_details, checkpoint, detail_ctx,
                   updated, page_log, row_urls, dispatch_count, interrupted>>
    /\ ScrapeOnly

\* Variant of MergeExtra that writes to the last record of the list instead of
\* the record the future is mapped to.
MergeExtraIntoLast(recs, i, extra) == [recs EXCEPT ![Len(recs)].detail = extra]

\* r = records[i], then the detail fields of r are overwritten from extra.
MergeExtra(recs, i, extra) == [recs EXCEPT ![i].detail = extra]

\* Variant of CountReturned: a task whose fetch gave None is counted as failed.
CountReturnedNoneAsFailed(upd, fld, o) ==
    IF o.ret = "None" THEN [updated |-> upd, failed |-> fld + 1]
    ELSE [updated |-> upd + 1, failed |-> fld]

\* fut.result() returned a dict: after the merge, "updated += 1".
CountReturned(upd, fld, o) == [updated |-> upd + 1, failed |-> fld]

\* as_completed yields the future of record i, whose task ended as o; its
\* result is merged into records[i].
DetailTaskReturnsWith(i, o, degree) ==
    /\ pc = "detail_wait"
    /\ i \in DOMAIN futures /\ futures[i] = "pending"
    /\ o.ret # "raised"
    /\ LET extra == IF o.ret = "payload"
                    THEN ParsedDetail(records[i].entry_url, degree)
                    ELSE EmptyDetail
       IN  records' = MergeExtra(records, i, extra)
    /\ futures' = [futures EXCEPT ![i] = IF o.late THEN "returned_late" ELSE "returned"]
    /\ updated' = CountReturned(updated, failed, o).updated
    /\ failed' = CountReturned(updated, failed, o).failed
    /\ UNCHANGED <<pc, page, existing_urls, seen_urls, chunk_new_indices,
                   pages_with_no_new, total_failed_details, checkpoint, detail_ctx,
                   page_log, row_urls, dispatch_count, interrupted>>
    /\ ScrapeOnly

DetailTaskReturns(i) ==
    \E o \in TaskOutcomes : \E degree \in DegreeValues : DetailTaskReturnsWith(i, o, degree)

\* "for fut in as_completed(future_map)" has yielded every future.
AllDone == \A i \in DOMAIN futures : futures[i] # "pending"

\* Variant of CheckpointAfterChunk: the file is left as it is.
CheckpointAfterChunkSkipped(recs, ckpt) == ckpt

\* After the chunk's detail fetch: save_data(records, UPDATE_OUTPUT_JSON).
CheckpointAfterChunk(recs, ckpt) == save_data(recs)

\* The call returns (updated, failed) to its call site in scrape_data.
DetailReturn ==
    /\ pc = "detail_wait"
    /\ AllDone
    /\ total_failed_details' = total_failed_details + failed
    /\ \/ /\ detail_ctx = "early"
          /\ chunk_new_indices' = <<>>
          /\ checkpoint' = save_data(records)
          /\ pc' = "final"
       \/ /\ detail_ctx = "chunk"
          /\ chunk_new_indices' = <<>>
          /\ checkpoint' = CheckpointAfterChunk(records, checkpoint)
          /\ pc' = "sleep"
       \/ /\ detail_ctx = "final"
          /\ UNCHANGED <<chunk_new_indices, checkpoint>>
          /\ pc' = "finalsave"
    /\ detail_ctx' = "none" /\ futures' = NoFutures /\ updated' = 0 /\ failed' = 0
    /\ UNCHANGED <<page, existing_urls, seen_urls, records, pages_with_no_new,
                   page_log, row_urls, dispatch_count, interrupted>>
    /\ ScrapeOnly

\* After the loop: "if FETCH_DETAILS and chunk_new_indices".
Final ==
    /\ pc = "final"
    /\ IF chunk_new_indices # <<>>
       THEN pc' = "detail" /\ detail_ctx' = "final"
       ELSE pc' = "finalsave" /\ UNCHANGED detail_ctx
    /\ UNCHANGED <<page, existing_urls, seen_urls, records, chunk_new_indices,
                   pages_with_no_new, total_failed_details, checkpoint, futures,
                   updated, failed, page_log, row_urls, dispatch_count, interrupted>>
    /\ ScrapeOnly

\* setdefault of the required keys (all present already), then the final save.
FinalSave ==
    /\ pc = "finalsave"
    /\ checkpoint' = save_data(records)
    /\ pc' = "done"
    /\ UNCHANGED <<page, existing_urls, seen_urls, records, chunk_new_indices,
                   pages_with_no_new, total_failed_details, detail_vars,
                   page_log, row_urls, dispatch_count, interrupted>>
    /\ ScrapeOnly

InTry == pc \in {"loop", "sleep"} \/ (pc \in {"detail", "detail_wait"} /\ detail_ctx # "final")

\* Variant of OnKeyboardInterrupt: the handler writes nothing.
OnKeyboardInterruptPass(recs, ckpt) == ckpt

\* except KeyboardInterrupt: save_data(records, UPDATE_OUTPUT_JSON)
OnKeyboardInterrupt(recs, ckpt) == save_data(recs)

\* KeyboardInterrupt inside the try block: the handler saves the records; the
\* code after the handler runs next.
Interrupt ==
    /\ ~interrupted
    /\ InTry
    /\ interrupted' = TRUE
    /\ checkpoint' = OnKeyboardInterrupt(records, checkpoint)
    /\ pc' = "final"
    /\ detail_ctx' = "none" /\ futures' = NoFutures /\ updated' = 0 /\ failed' = 0
    /\ UNCHANGED <<page, existing_urls, seen_urls, records, chunk_new_indices,
                   pages_with_no_new, total_failed_details, page_log, row_urls,
                   dispatch_count>>
    /\ ScrapeOnly

\* KeyboardInterrupt after the try block: nothing catches it.
InterruptLate ==
    /\ ~interrupted
    /\ pc \in {"final", "finalsave"} \/ (pc \in {"detail", "detail_wait"} /\ detail_ctx = "final")
    /\ interrupted' = TRUE
    /\ pc' = "crashed"
    /\ UNCHANGED <<page, existing_urls, seen_urls, records, chunk_new_indices,
                   pages_with_no_new, total_failed_details, checkpoint, detail_vars,
                   page_log, row_urls, dispatch_count>>
    /\ ScrapeOnly

\* The site serves any page of the model; as_completed yields any pending future.
ListingPageAny == \E rows \in Pages : ListingPage(rows)
DetailTaskRaisesAny == \E i \in DOMAIN futures : DetailTaskRaises(i)
DetailTaskReturnsAny == \E i \in DOMAIN futures : DetailTaskReturns(i)

ScrapeNext ==
    \/ ListingFetchRaises
    \/ ListingFetchFails
    \/ ListingPageAny
    \/ Sleep
    \/ DetailStart
    \/ DetailTaskRaisesAny
    \/ DetailTaskReturnsAny
    \/ DetailReturn
    \/ Final
    \/ FinalSave
    \/ Interrupt
    \/ InterruptLate

InitScrape == ScrapeInit /\ site = <<>> /\ FetchIdle /\ LoadIdle /\ AppIdle /\ HelpersIdle

SpecScrape == InitScrape /\ [][ScrapeNext]_vars

\* The steps of scrape_data itself; Ctrl-C is the user's.  Each of them ends:
\* a fetch returns, raises or times out, and so does every detail task.
ScrapeRuns ==
    \/ ListingFetchRaises \/ ListingFetchFails \/ ListingPageAny \/ Sleep
    \/ DetailStart \/ DetailTaskRaisesAny \/ DetailTaskReturnsAny \/ DetailReturn
    \/ Final \/ FinalSave

SpecScrapeFair == InitScrape /\ [][ScrapeNext]_vars /\ WF_vars(ScrapeRuns)

(***************************************************************************)
(* The pipeline from end to end on a site of two listing pages: page 1     *)
(* has two rows of at least 5 cells, one with a result link and one with   *)
(* no link; page 2 repeats the URL of page 1 and adds a new one, whose     *)
(* detail fetch fails on every attempt.  scrape_update.py runs on it, then *)
(* clean_update.py.                                                        *)
(***************************************************************************)
RowUrl(row, p) == _canonical_result_url(_extract_entry_url(row, PageUrl(p)))

ScenarioSites ==
    {st \in [1..2 -> [1..2 -> Rows]] :
        /\ \A p \in 1..2 : \A k \in 1..2 : st[p][k].ncols >= 5
        /\ \E k \in 1..2 :
             /\ _valid_result_url(RowUrl(st[1][k], 1))
             /\ _extract_entry_url(st[1][3 - k], PageUrl(1)) = NoUrl
             /\ \E j \in 1..2 :
                  /\ RowUrl(st[2][j], 2) = RowUrl(st[1][k], 1)
                  /\ _valid_result_url(RowUrl(st[2][3 - j], 2))
                  /\ RowUrl(st[2][3 - j], 2) # RowUrl(st[1][k], 1)}

\* The URL page 2 adds.
NewUrl(st) ==
    CHOOSE u \in {RowUrl(st[2][j], 2) : j \in 1..2} :
        _valid_result_url(u) /\ u \notin {RowUrl(st[1][k], 1) : k \in 1..2}

\* clean_update._clean_text and _normalize_none on a scalar: an empty string
\* becomes None, anything else passes (the values here hold no markup or
\* runs of whitespace).
_clean_text(x) == IF x = "" THEN "None" ELSE x
_normalize_none(x) == IF x = "None" THEN "None" ELSE _clean_text(x)

\* clean_data: one output row per input record.
RECURSIVE clean_data(_)
clean_data(recs) ==
    IF recs = <<>> THEN <<>>
    ELSE <<[entry_url |-> Head(recs).entry_url,
            degree |-> _normalize_none(Head(recs).detail.degree)]>> \o clean_data(Tail(recs))

InitEndToEnd ==
    /\ ScrapeInit
    /\ existing_urls = {}
    /\ site \in ScenarioSites
    /\ FetchIdle /\ LoadIdle /\ AppIdle /\ HelpersIdle

\* The site serves the page asked for.
E2EListingPage ==
    /\ page \in DOMAIN site
    /\ ListingPage(site[page])

\* A page past the last one: the site answers with an error status ...
E2EPageMissing ==
    /\ page \notin DOMAIN site
    /\ ListingFetchFails

\* ... or with a listing that has no rows.
E2EPageEmpty ==
    /\ page \notin DOMAIN site
    /\ ListingPage(<<>>)

\* The detail page of the new URL fails on every attempt; the other is served.
E2EDetailTask ==
    \E i \in DOMAIN futures : \E o \in TaskOutcomes : \E degree \in DegreeValues :
        /\ o.ret = IF records[i].entry_url = NewUrl(site) THEN "None" ELSE "payload"
        /\ DetailTaskReturnsWith(i, o, degree)

\* clean_update.py: load_data(INPUT_JSON), clean_data, save_data(OUTPUT_JSON).
CleanUpdate ==
    /\ pc = "done"
    /\ checkpoint.written
    /\ cleaned_file' = [exists |-> TRUE, data |-> <<clean_data(checkpoint.data), <<>> >>]
    /\ pc' = "cleaned"
    /\ UNCHANGED <<page, existing_urls, seen_urls, records, chunk_new_indices,
                   pages_with_no_new, total_failed_details, checkpoint, detail_vars,
                   page_log, row_urls, dispatch_count, interrupted>>
    /\ UNCHANGED <<store, ld, first_run_store, fetch_vars, app_vars, site, helper_vars>>

EndToEndNext ==
    \/ E2EListingPage
    \/ E2EPageMissing
    \/ E2EPageEmpty
    \/ Sleep
    \/ DetailStart
    \/ E2EDetailTask
    \/ DetailReturn
    \/ Final
    \/ FinalSave
    \/ CleanUpdate

SpecEndToEnd == InitEndToEnd /\ [][EndToEndNext]_vars

(***************************************************************************)
(* _safe_fetch_html on its own: one call, for any behaviour of the three   *)
(* possible calls of _fetch_html.                                          *)
(***************************************************************************)
InitFetch ==
    /\ fetch_outs \in AttemptOutcomes
    /\ fetch_res = [ret |-> "pending", attempts |-> 0, sleeps |-> <<>>]
    /\ ScrapeIdle /\ LoadIdle /\ AppIdle /\ HelpersIdle

SafeFetchCall ==
    /\ fetch_res.ret = "pending"
    /\ fetch_res' = _safe_fetch_html(fetch_outs)
    /\ UNCHANGED <<fetch_outs, scrape_vars, load_vars, app_vars, site, helper_vars>>

FetchNext == SafeFetchCall

SpecFetch == InitFetch /\ [][FetchNext]_vars

(***************************************************************************)
(* The applicants table and load_update.main.                              *)
(*                                                                         *)
(* The table has "url TEXT UNIQUE": a unique index that, as PostgreSQL     *)
(* defines it, never treats two NULLs as equal.  A transaction is the list *)
(* of its uncommitted operations; a statement sees the committed rows and  *)
(* the transaction's own operations (READ COMMITTED).                      *)
(***************************************************************************)
None == "None"
Keys == {"u1", "u2"}

Entries ==
    [entry_url : Keys \cup {None}, program : {"p1", "p2"},
     start_term : {None, "Fall"}, start_year : {None, "2026"}]

\* Rows the table may hold before the loader runs.
PriorRows == {[url |-> "u1", program |-> "p0", term |-> None]}

\* term_value of main
TermValue(entry) ==
    IF entry.start_term # None /\ entry.start_year # None
    THEN entry.start_term \o " " \o entry.start_year
    ELSE IF entry.start_term # None THEN entry.start_term
    ELSE IF entry.start_year # None THEN entry.start_year
    ELSE None

\* The parameters of the INSERT statement.
RowOf(entry) ==
    [url |-> entry.entry_url, program |-> entry.program, term |-> TermValue(entry)]

\* A transaction's operations applied to the rows: an insert appends, an
\* update replaces the row of the same url.
RECURSIVE ApplyOps(_, _)
ApplyOps(rows, ops) ==
    IF ops = <<>> THEN rows
    ELSE LET op == Head(ops)
             next == IF op.kind = "insert" THEN Append(rows, op.row)
                     ELSE [k \in DOMAIN rows |->
                             IF rows[k].url = op.row.url THEN op.row ELSE rows[k]]
         IN  ApplyOps(next, Tail(ops))

\* url conflicts with a row: NULL conflicts with nothing.
Conflicts(rows, url) == url # None /\ \E k \in DOMAIN rows : rows[k].url = url

\* Variant of InsertOnConflictDoNothing: ON CONFLICT (url) DO UPDATE.
InsertOnConflictDoUpdate(visible, row) ==
    IF Conflicts(visible, row.url)
    THEN [ops |-> <<[kind |-> "update", row |-> row]>>, rowcount |-> 1]
    ELSE [ops |-> <<[kind |-> "insert", row |-> row]>>, rowcount |-> 1]

\* INSERT INTO applicants (...) VALUES (...) ON CONFLICT (url) DO NOTHING,
\* against the rows the statement sees: the operations it adds and cur.rowcount.
InsertOnConflictDoNothing(visible, row) ==
    IF Conflicts(visible, row.url)
    THEN [ops |-> <<>>, rowcount |-> 0]
    ELSE [ops |-> <<[kind |-> "insert", row |-> row]>>, rowcount |-> 1]

\* Variant of CountInserted: every executed statement is counted.
CountAttempted(inserted, rowcount) == inserted + 1

\* if cur.rowcount == 1: inserted += 1
CountInserted(inserted, rowcount) == IF rowcount = 1 THEN inserted + 1 ELSE inserted

Loaders == {1, 2}

NewLoader(maxruns) ==
    [pc |-> "start", data |-> <<>>, idx |-> 1, inserted |-> 0, pending |-> <<>>,
     reported |-> -1, run |-> 1, maxruns |-> maxruns]
OffLoader == [NewLoader(0) EXCEPT !.pc = "off"]

InTxn(l) == ld[l].pc = "insert"

\* The urls loader l has inserted and not yet committed.
PendingUrls(l) == {ld[l].pending[k].row.url : k \in DOMAIN ld[l].pending} \ {None}

\* The row loader l is about to insert.
NextRow(l) == RowOf(ld[l].data[ld[l].idx])

\* The statement of l must wait for m: m holds an uncommitted row of the same url.
WaitsFor(l, m) ==
    /\ m # l /\ InTxn(l) /\ InTxn(m)
    /\ ld[l].idx <= Len(ld[l].data)
    /\ NextRow(l).url \in PendingUrls(m)

LoadOnly == UNCHANGED <<scrape_vars, fetch_vars, app_vars, site, helper_vars>>

\* Variant of MissingFile: the check is left out.
MissingFileIgnored(file) == FALSE

\* if not CLEANED_UPDATE_PATH.exists(): raise FileNotFoundError(...)
MissingFile(file) == ~file.exists

\* main up to the loop: the file check, json.loads, connect_db.
LoadStart(l) ==
    /\ ld[l].pc = "start"
    /\ IF MissingFile(cleaned_file)
       THEN ld' = [ld EXCEPT ![l].pc = "FileNotFoundError"]
       ELSE ld' = [ld EXCEPT ![l].pc = "insert", ![l].data = cleaned_file.data[l],
                             ![l].idx = 1, ![l].inserted = 0, ![l].pending = <<>>]
    /\ UNCHANGED <<cleaned_file, store, first_run_store>>
    /\ LoadOnly

\* One iteration of "for entry in data": cur.execute and the rowcount test.
LoadInsert(l) ==
    /\ InTxn(l)
    /\ ld[l].idx <= Len(ld[l].data)
    /\ ~\E m \in Loaders : WaitsFor(l, m)
    /\ LET res == InsertOnConflictDoNothing(ApplyOps(store, ld[l].pending), NextRow(l))
       IN  ld' = [ld EXCEPT ![l].pending = @ \o res.ops,
                            ![l].inserted = CountInserted(@, res.rowcount),
                            ![l].idx = @ + 1]
    /\ UNCHANGED <<cleaned_file, store, first_run_store>>
    /\ LoadOnly

\* conn.commit() and the print of the count.
LoadCommit(l) ==
    /\ InTxn(l)
    /\ ld[l].idx > Len(ld[l].data)
    /\ store' = ApplyOps(store, ld[l].pending)
    /\ ld' = [ld EXCEPT ![l].pc = "done", ![l].pending = <<>>, ![l].reported = ld[l].inserted]
    /\ first_run_store' =
         IF l = 1 /\ ld[l].run = 1 THEN [done |-> TRUE, rows |-> store'] ELSE first_run_store
    /\ UNCHANGED cleaned_file
    /\ LoadOnly

\* main is called again with the same file.
LoadRerun(l) ==
    /\ ld[l].pc = "done"
    /\ ld[l].run < ld[l].maxruns
    /\ ld' = [ld EXCEPT ![l].pc = "start", ![l].run = @ + 1, ![l].reported = -1]
    /\ UNCHANGED <<cleaned_file, store, first_run_store>>
    /\ LoadOnly

\* Two transactions wait for each other: PostgreSQL aborts one of them with
\* "deadlock detected", which main does not catch.
LoadDeadlock(l) ==
    /\ \E m \in Loaders : WaitsFor(l, m) /\ WaitsFor(m, l)
    /\ ld' = [ld EXCEPT ![l].pc = "DeadlockDetected", ![l].pending = <<>>]
    /\ UNCHANGED <<cleaned_file, store, first_run_store>>
    /\ LoadOnly

LoadStartAny == \E l \in Loaders : LoadStart(l)
LoadInsertAny == \E l \in Loaders : LoadInsert(l)
LoadCommitAny == \E l \in Loaders : LoadCommit(l)
LoadRerunAny == \E l \in Loaders : LoadRerun(l)
LoadDeadlockAny == \E l \in Loaders : LoadDeadlock(l)

NoFirstRun == [done |-> FALSE, rows |-> <<>>]

\* One invocation after another: main runs on a file, then again on the same file.
InitLoadSeq ==
    /\ \E data \in SeqsUpTo(Entries, MaxInput) :
         cleaned_file \in {[exists |-> TRUE, data |-> <<data, <<>> >>],
                           [exists |-> FALSE, data |-> << <<>>, <<>> >>]}
    /\ store \in SeqsUpTo(PriorRows, 1)
    /\ ld = [l \in Loaders |-> IF l = 1 THEN NewLoader(2) ELSE OffLoader]
    /\ first_run_store = NoFirstRun
    /\ ScrapeIdle /\ FetchIdle /\ AppIdle /\ HelpersIdle

LoadSeqNext == LoadStartAny \/ LoadInsertAny \/ LoadCommitAny \/ LoadRerunAny

SpecLoadSeq == InitLoadSeq /\ [][LoadSeqNext]_vars

\* Two invocations at once, each with its own input, on one table.
ConcEntries == {e \in Entries : e.start_term = None /\ e.start_year = None /\ e.program = "p1"}

InitLoadConc ==
    /\ \E d1 \in SeqsUpTo(ConcEntries, MaxInput), d2 \in SeqsUpTo(ConcEntries, MaxInput) :
         cleaned_file = [exists |-> TRUE,
                         data |-> <<d1, [k \in DOMAIN d2 |-> [d2[k] EXCEPT !.program = "p2"]]>>]
    /\ store = <<>>
    /\ ld = [l \in Loaders |-> NewLoader(1)]
    /\ first_run_store = NoFirstRun
    /\ ScrapeIdle /\ FetchIdle /\ AppIdle /\ HelpersIdle

LoadConcNext == LoadStartAny \/ LoadInsertAny \/ LoadCommitAny \/ LoadDeadlockAny

SpecLoadConc == InitLoadConc /\ [][LoadConcNext]_vars

(***************************************************************************)
(* app.py: the Flask application.  The development server answers each     *)
(* request on a thread of its own, and POST /pull-data starts a daemon     *)
(* thread running run_update_pipeline.  The statements inside one          *)
(* "with job_lock:" block form one step; update_analysis takes no lock, so *)
(* its test of job_running, its query and its two assignments are steps of *)
(* their own.                                                              *)
(***************************************************************************)
MaxPulls == 2
MaxRefreshes == 2

PullRequests == 1..MaxPulls
RefreshRequests == 1..MaxRefreshes

MsgNone == "No update run yet."
MsgStarted == "Update started..."
MsgCompleted == "Update completed successfully."
MsgFailed == "Update failed. Check update_job.log."
MsgCrashed == "Update crashed"
Outcomes == {MsgCompleted, MsgFailed, MsgCrashed}

\* The stages of run_one, in order, then the parse of the inserted count.
StageOrder == <<"SCRAPE", "CLEAN", "LOAD", "report">>
Stages == Range(StageOrder)
StageAfter(stage) == StageOrder[(CHOOSE k \in DOMAIN StageOrder : StageOrder[k] = stage) + 1]

\* A thread between its first stage and the end of its finally block.
Executing(t) == thread[t] \in Stages \cup {"finally"}

InitApp ==
    /\ job_running = FALSE
    /\ job_last_message = MsgNone
    /\ analysis_cache = <<>>
    /\ analysis_last_updated = 0
    /\ thread = [r \in PullRequests |-> "none"]
    /\ pull_status = [r \in PullRequests |-> 0]
    /\ ua = [h \in RefreshRequests |-> "new"]
    /\ ua_status = [h \in RefreshRequests |-> 0]
    /\ db_version = 0
    /\ ScrapeIdle /\ FetchIdle /\ LoadIdle /\ HelpersIdle

AppOnly == UNCHANGED <<scrape_vars, fetch_vars, load_vars, site, helper_vars>>

\* pull_data: under job_lock, answer 409 if job_running, else start the thread
\* and answer 202.
PullData(r) ==
    /\ pull_status[r] = 0
    /\ IF job_running
       THEN /\ pull_status' = [pull_status EXCEPT ![r] = 409]
            /\ UNCHANGED thread
       ELSE /\ thread' = [thread EXCEPT ![r] = "started"]
            /\ pull_status' = [pull_status EXCEPT ![r] = 202]
    /\ UNCHANGED <<job_running, job_last_message, analysis_cache, analysis_last_updated,
                   ua, ua_status, db_version>>
    /\ AppOnly

\* Variant of AcquireJob without the "if job_running: return" test.
AcquireJobUnguarded(running, message) ==
    [proceed |-> TRUE, job_running |-> TRUE, job_last_message |-> MsgStarted]

\* run_update_pipeline, the first "with job_lock:" block.
AcquireJob(running, message) ==
    IF running
    THEN [proceed |-> FALSE, job_running |-> running, job_last_message |-> message]
    ELSE [proceed |-> TRUE, job_running |-> TRUE, job_last_message |-> MsgStarted]

\* The thread takes job_lock and enters run_update_pipeline.
Begin(t) ==
    /\ thread[t] = "started"
    /\ LET a == AcquireJob(job_running, job_last_message)
       IN  /\ job_running' = a.job_running
           /\ job_last_message' = a.job_last_message
           /\ thread' = [thread EXCEPT ![t] = IF a.proceed THEN StageOrder[1]
                                               ELSE "returned_early"]
    /\ UNCHANGED <<analysis_cache, analysis_last_updated, pull_status, ua, ua_status,
                   db_version>>
    /\ AppOnly

\* job_log_path.write_text raises (the file cannot be written): the exception
\* leaves the function before the try block is entered.
BeginLogWriteRaises(t) ==
    /\ thread[t] = "started"
    /\ ~job_running
    /\ job_running' = TRUE
    /\ job_last_message' = MsgStarted
    /\ thread' = [thread EXCEPT ![t] = "died"]
    /\ UNCHANGED <<analysis_cache, analysis_last_updated, pull_status, ua, ua_status,
                   db_version>>
    /\ AppOnly

\* subprocess.run returns with exit status 0; LOAD has committed its rows.
StageSucceeds(t) ==
    /\ thread[t] \in {"SCRAPE", "CLEAN", "LOAD"}
    /\ thread' = [thread EXCEPT ![t] = StageAfter(@)]
    /\ db_version' = IF thread[t] = "LOAD" THEN db_version + 1 ELSE db_version
    /\ UNCHANGED <<job_running, job_last_message, analysis_cache, analysis_last_updated,
                   pull_status, ua, ua_status>>
    /\ AppOnly

\* Variant of OnExitStatus without check=True: the next stage is run.
OnExitStatusUnchecked(stage) ==
    StageOrder[(CHOOSE k \in DOMAIN StageOrder : StageOrder[k] = stage) + 1]

\* subprocess.run(..., check=True) on a non-zero exit status: CalledProcessError
\* leaves the try block.
OnExitStatus(stage) == "finally"

\* except subprocess.CalledProcessError
StageExitsNonZero(t) ==
    /\ thread[t] \in {"SCRAPE", "CLEAN", "LOAD"}
    /\ job_last_message' = MsgFailed
    /\ thread' = [thread EXCEPT ![t] = OnExitStatus(@)]
    /\ UNCHANGED <<job_running, analysis_cache, analysis_last_updated, pull_status,
                   ua, ua_status, db_version>>
    /\ AppOnly

\* except Exception: anything else raised inside the try block.
StageRaises(t) ==
    /\ thread[t] \in Stages
    /\ job_last_message' = MsgCrashed
    /\ thread' = [thread EXCEPT ![t] = "finally"]
    /\ UNCHANGED <<job_running, analysis_cache, analysis_last_updated, pull_status,
                   ua, ua_status, db_version>>
    /\ AppOnly

\* The inserted count is parsed from the log and the success message is set.
Report(t) ==
    /\ thread[t] = "report"
    /\ job_last_message' = MsgCompleted
    /\ thread' = [thread EXCEPT ![t] = "finally"]
    /\ UNCHANGED <<job_running, analysis_cache, analysis_last_updated, pull_status,
                   ua, ua_status, db_version>>
    /\ AppOnly

\* Variant of ReleaseJob that leaves the flag as it is.
ReleaseJobKeeps(running) == running

\* finally: with job_lock: job_running = False
ReleaseJob(running) == FALSE

Finally(t) ==
    /\ thread[t] = "finally"
    /\ job_running' = ReleaseJob(job_running)
    /\ thread' = [thread EXCEPT ![t] = "finished"]
    /\ UNCHANGED <<job_last_message, analysis_cache, analysis_last_updated, pull_status,
                   ua, ua_status, db_version>>
    /\ AppOnly

\* get_analysis_results(): the cards of the table as it is now.
get_analysis_results(version) == <<version>>

\* update_analysis: "if job_running:" answers 409, else the handler goes on.
UpdateAnalysisCheck(h) ==
    /\ ua[h] = "new"
    /\ IF job_running
       THEN /\ ua' = [ua EXCEPT ![h] = "done"]
            /\ ua_status' = [ua_status EXCEPT ![h] = 409]
       ELSE /\ ua' = [ua EXCEPT ![h] = "refresh"]
            /\ UNCHANGED ua_status
    /\ UNCHANGED <<job_running, job_last_message, analysis_cache, analysis_last_updated,
                   thread, pull_status, db_version>>
    /\ AppOnly

\* analysis_cache = get_analysis_results()
UpdateAnalysisRefresh(h) ==
    /\ ua[h] = "refresh"
    /\ analysis_cache' = get_analysis_results(db_version)
    /\ ua' = [ua EXCEPT ![h] = "stamp"]
    /\ UNCHANGED <<job_running, job_last_message, analysis_last_updated, thread,
                   pull_status, ua_status, db_version>>
    /\ AppOnly

\* get_analysis_results() raises (the query fails): the request is answered 500.
UpdateAnalysisRaises(h) ==
    /\ ua[h] = "refresh"
    /\ ua' = [ua EXCEPT ![h] = "done"]
    /\ ua_status' = [ua_status EXCEPT ![h] = 500]
    /\ UNCHANGED <<job_running, job_last_message, analysis_cache, analysis_last_updated,
                   thread, pull_status, db_version>>
    /\ AppOnly

\* analysis_last_updated = datetime.now(), then the 200 answer.
UpdateAnalysisStamp(h) ==
    /\ ua[h] = "stamp"
    /\ analysis_last_updated' = analysis_last_updated + 1
    /\ ua' = [ua EXCEPT ![h] = "done"]
    /\ ua_status' = [ua_status EXCEPT ![h] = 200]
    /\ UNCHANGED <<job_running, job_last_message, analysis_cache, thread, pull_status,
                   db_version>>
    /\ AppOnly

\* analysis(): GET / fills the cache on the first page load only.
Analysis ==
    /\ analysis_cache = <<>>
    /\ analysis_cache' = get_analysis_results(db_version)
    /\ UNCHANGED <<job_running, job_last_message, analysis_last_updated, thread,
                   pull_status, ua, ua_status, db_version>>
    /\ AppOnly

PullDataAny == \E r \in PullRequests : PullData(r)
BeginAny == \E t \in PullRequests : Begin(t)
BeginLogWriteRaisesAny == \E t \in PullRequests : BeginLogWriteRaises(t)
StageSucceedsAny == \E t \in PullRequests : StageSucceeds(t)
StageExitsNonZeroAny == \E t \in PullRequests : StageExitsNonZero(t)
StageRaisesAny == \E t \in PullRequests : StageRaises(t)
ReportAny == \E t \in PullRequests : Report(t)
FinallyAny == \E t \in PullRequests : Finally(t)
UpdateAnalysisCheckAny == \E h \in RefreshRequests : UpdateAnalysisCheck(h)
UpdateAnalysisRefreshAny == \E h \in RefreshRequests : UpdateAnalysisRefresh(h)
UpdateAnalysisRaisesAny == \E h \in RefreshRequests : UpdateAnalysisRaises(h)
UpdateAnalysisStampAny == \E h \in RefreshRequests : UpdateAnalysisStamp(h)

AppNext ==
    \/ PullDataAny
    \/ BeginAny
    \/ BeginLogWriteRaisesAny
    \/ StageSucceedsAny
    \/ StageExitsNonZeroAny
    \/ StageRaisesAny
    \/ ReportAny
    \/ FinallyAny
    \/ UpdateAnalysisCheckAny
    \/ UpdateAnalysisRefreshAny
    \/ UpdateAnalysisRaisesAny
    \/ UpdateAnalysisStampAny
    \/ Analysis

SpecApp == InitApp /\ [][AppNext]_vars

\* A thread that can take a step of run_update_pipeline takes it: the
\* interpreter schedules every thread, and each stage is a subprocess that ends.
ThreadStep(t) ==
    \/ Begin(t)
    \/ StageSucceeds(t) \/ StageExitsNonZero(t) \/ StageRaises(t)
    \/ Report(t)
    \/ Finally(t)

SpecAppFair == InitApp /\ [][AppNext]_vars /\ \A t \in PullRequests : WF_vars(ThreadStep(t))

(***************************************************************************)
(* The URL helpers as pure functions: one call of _canonical_result_url    *)
(* (applied once and applied to its own result) or of _valid_result_url,   *)
(* on an argument drawn from UrlInputs.                                    *)
(***************************************************************************)
UrlSchemes == {"", "http", "https"}
UrlNetlocs ==
    {"", "thegradcafe.com", "www.thegradcafe.com", "notthegradcafe.com", "example.com", "[::1"}
\* paths "", "/result/1", "result/1", "/result", "/survey/"
UrlPaths ==
    {<<FALSE, <<>>>>, <<TRUE, <<"result", "1">>>>, <<FALSE, <<"result", "1">>>>,
     <<TRUE, <<"result">>>>, <<TRUE, <<"survey", "">>>>}
UrlQueries == {"", "x=1"}
UrlFragments == {"", "top"}

\* The strings of the model, as urlparse splits them: a netloc is followed
\* by an absolute path or by none.
UrlInputs ==
    {u \in {Url(s, n, p[1], p[2], q, f) :
                s \in UrlSchemes, n \in UrlNetlocs, p \in UrlPaths,
                q \in UrlQueries, f \in UrlFragments} :
        u.netloc # "" => (u.abs \/ u.segs = <<>>)}

InitUrl ==
    /\ url_call \in {[NoUrlCall EXCEPT !.op = "new", !.x = x] : x \in UrlInputs}
    /\ pool = <<>>
    /\ ScrapeIdle /\ FetchIdle /\ LoadIdle /\ AppIdle

UrlOnly == UNCHANGED <<scrape_vars, fetch_vars, load_vars, app_vars, site, pool>>

CanonicalCall ==
    /\ url_call.op = "new"
    /\ url_call' = [url_call EXCEPT !.op = "canonical",
                        !.out = _canonical_result_url(url_call.x),
                        !.again = _canonical_result_url(_canonical_result_url(url_call.x))]
    /\ UrlOnly

ValidCall ==
    /\ url_call.op = "new"
    /\ url_call' = [url_call EXCEPT !.op = "valid", !.valid = _valid_result_url(url_call.x)]
    /\ UrlOnly

UrlNext == CanonicalCall \/ ValidCall
SpecUrl == InitUrl /\ [][UrlNext]_vars

(***************************************************************************)
(* The worker pool of _fetch_details_for_indices on its own:               *)
(* ThreadPoolExecutor(max_workers=MAX_WORKERS), one ex.submit per task.    *)
(* submit puts the task on the executor's FIFO work queue; the executor    *)
(* keeps at most max_workers threads and each takes one task at a time     *)
(* from the head of the queue.  A task is _parse_result_page(url): it      *)
(* returns its dict or raises.  MAX_WORKERS is the program's 8 scaled down *)
(* so that a chunk can hold more tasks than there are workers.             *)
(***************************************************************************)
MAX_WORKERS == 2
MaxTasks == 4

PoolTasks == DOMAIN pool
Submitted(i) == pool[i] # "new"
Running == {i \in PoolTasks : pool[i] = "running"}
Executed(i) == pool[i] \in {"running", "returned", "raised"}

InitPool ==
    /\ \E n \in 1..MaxTasks : pool = [i \in 1..n |-> "new"]
    /\ url_call = NoUrlCall
    /\ ScrapeIdle /\ FetchIdle /\ LoadIdle /\ AppIdle

PoolOnly == UNCHANGED <<scrape_vars, fetch_vars, load_vars, app_vars, site, url_call>>

\* ex.submit(_parse_result_page, url), in the order of tasks.
Submit(i) ==
    /\ pool[i] = "new"
    /\ \A j \in PoolTasks : j < i => Submitted(j)
    /\ pool' = [pool EXCEPT ![i] = "queued"]
    /\ PoolOnly

\* Variant of WorkerFree: a thread for every task.
WorkerAlwaysFree(busy) == TRUE

\* max_workers=MAX_WORKERS: a task is taken only by a thread that runs no other.
WorkerFree(busy) == busy < MAX_WORKERS

\* A worker thread takes the task at the head of the work queue.
TaskStart(i) ==
    /\ pool[i] = "queued"
    /\ \A j \in PoolTasks : j < i => pool[j] # "queued"
    /\ WorkerFree(Cardinality(Running))
    /\ pool' = [pool EXCEPT ![i] = "running"]
    /\ PoolOnly

\* _parse_result_page returns; its thread is free again.
TaskReturns(i) ==
    /\ pool[i] = "running"
    /\ pool' = [pool EXCEPT ![i] = "returned"]
    /\ PoolOnly

\* _parse_result_page raises; its thread is free again.
TaskRaises(i) ==
    /\ pool[i] = "running"
    /\ pool' = [pool EXCEPT ![i] = "raised"]
    /\ PoolOnly

SubmitAny == \E i \in PoolTasks : Submit(i)
TaskStartAny == \E i \in PoolTasks : TaskStart(i)
TaskReturnsAny == \E i \in PoolTasks : TaskReturns(i)
TaskRaisesAny == \E i \in PoolTasks : TaskRaises(i)

PoolNext == SubmitAny \/ TaskStartAny \/ TaskReturnsAny \/ TaskRaisesAny

\* The interpreter schedules every thread, and a task ends: each of its at
\* most RETRIES fetches returns, raises or times out after TIMEOUT_S.
SpecPool == InitPool /\ [][PoolNext]_vars /\ WF_vars(PoolNext)

(***************************************************************************)
(* Properties.                                                             *)
(***************************************************************************)
RecordsWithUrl(u) == {i \in DOMAIN records : records[i].entry_url = u}

\* C1: the accumulated record list never holds two records with the same
\* canonical entry URL, and a valid URL not in the store that has appeared in
\* parsed rows (once or several times, on one page or on several) has
\* exactly one record.
C1_NoDuplicateEntryUrl ==
    /\ \A i, j \in DOMAIN records :
          i # j => records[i].entry_url # records[j].entry_url
    /\ \A u \in DOMAIN row_urls :
          (row_urls[u] >= 1 /\ u \notin existing_urls) => Cardinality(RecordsWithUrl(u)) = 1

\* A URL not in the store has appeared in two rows and the run has ended.
C1_Witness ==
    /\ pc = "done"
    /\ \E u \in DOMAIN row_urls :
          row_urls[u] = 2 /\ u \notin existing_urls /\ Cardinality(RecordsWithUrl(u)) = 1

\* C2: a row whose canonical URL is in the set loaded from the store is never
\* appended to records and no detail task is ever submitted for it.
C2_ExistingNeverHarvested ==
    /\ \A i \in DOMAIN records : records[i].entry_url \notin existing_urls
    /\ \A i \in DOMAIN futures : records[i].entry_url \notin existing_urls
    /\ \A u \in existing_urls : RecordsWithUrl(u) = {}

\* A row with a URL of the store has been parsed and the run has ended.
C2_Witness ==
    /\ pc = "done"
    /\ \E u \in existing_urls : u \in DOMAIN row_urls /\ row_urls[u] >= 1

NewIndices == DOMAIN records' \ DOMAIN records

\* C3: seen_urls starts as the store's URLs and never loses an element; a URL
\* enters it in the very step that appends its record and queues the record's
\* index for the current chunk, before a detail task exists for the record.
C3_SeenIndexGrows ==
    /\ seen_urls = existing_urls
    /\ [][/\ seen_urls \subseteq seen_urls'
          /\ existing_urls \subseteq seen_urls'
          /\ \A i \in NewIndices :
                /\ records'[i].entry_url \in seen_urls' \ seen_urls
                /\ i \in Range(chunk_new_indices')
                /\ i \notin DOMAIN futures'
                /\ dispatch_count'[i] = 0
          /\ \A u \in seen_urls' \ seen_urls :
                \E i \in NewIndices : records'[i].entry_url = u
          /\ \A i \in DOMAIN futures' : records'[i].entry_url \in seen_urls
         ]_vars

\* A new URL is registered, its record queued and not yet dispatched.
C3_Witness ==
    \E i \in Range(chunk_new_indices) :
        /\ dispatch_count[i] = 0
        /\ records[i].entry_url \in seen_urls \ existing_urls

\* The last STOP_AFTER_PAGES_WITH_NO_NEW pages visited each added no record.
LastPagesAddedNothing ==
    /\ Len(page_log) = STOP_AFTER_PAGES_WITH_NO_NEW
    /\ \A k \in DOMAIN page_log : page_log[k].added = 0

\* The loop was left by the break of the early stop.
EarlyStopped ==
    /\ ~interrupted
    /\ page <= SURVEY_PAGES
    /\ pc \in {"final", "finalsave", "done"} \/ (pc \in {"detail", "detail_wait"} /\ detail_ctx # "chunk")

\* C4: the harvest stops fetching listing pages exactly when 2 consecutive
\* listing pages have each yielded no new record: while pages remain, the
\* loop has been left by the early stop if and only if the last 2 pages
\* visited each added nothing (once it is left no listing page is fetched);
\* and a page that adds a record resets the count to zero.
C4_EarlyStopExactly ==
    /\ (~interrupted /\ pc # "crashed" /\ page <= SURVEY_PAGES)
          => (LastPagesAddedNothing <=> EarlyStopped)
    /\ (page_log # <<>> /\ page_log[Len(page_log)].added > 0) => pages_with_no_new = 0

\* The same, over runs in which every listing page visited was fetched.
C4_OnFetchedPages ==
    (\A k \in DOMAIN page_log : page_log[k].fetched) => C4_EarlyStopExactly

\* A listing page whose fetch gave no payload has just been skipped.
FailedPageStep == pc = "loop" /\ page' = page + 1

\* C5: a listing page whose fetch fails is skipped without ending the run,
\* counts as a page that added nothing, and increments pages_with_no_new.
C5_FailedPageCounts ==
    [][FailedPageStep =>
          /\ pc' \in {"loop", "final"}
          /\ page_log'[Len(page_log')].added = 0
          /\ pages_with_no_new' = pages_with_no_new + 1
      ]_vars

\* What the code does instead: the skipped page leaves the counter as it was.
C5_FailedPageLeavesCount ==
    [][FailedPageStep =>
          /\ pc' \in {"loop", "final"}
          /\ page_log'[Len(page_log')].added = 0
          /\ pages_with_no_new' = pages_with_no_new
      ]_vars

IsFailure(kind) == kind \notin {"ok", "empty"}

\* The first attempt that succeeds, 0 when none does.
FirstSuccess(outs) ==
    IF \A k \in 1..RETRIES : IsFailure(outs[k]) THEN 0
    ELSE CHOOSE k \in 1..RETRIES :
            ~IsFailure(outs[k]) /\ \A j \in 1..(k - 1) : IsFailure(outs[j])

\* C6: _safe_fetch_html makes at most 3 attempts, returns the payload of the
\* first successful attempt without another attempt, and returns no payload,
\* raising nothing, when every attempt fails, whatever the kind of failure.
C6_SafeFetchContract ==
    fetch_res.ret # "pending" =>
        /\ fetch_res.attempts <= RETRIES
        /\ fetch_res.ret # "raised"
        /\ FirstSuccess(fetch_outs) # 0 =>
              /\ fetch_res.ret \in {"payload", "empty"}
              /\ fetch_res.attempts = FirstSuccess(fetch_outs)
        /\ FirstSuccess(fetch_outs) = 0 => fetch_res.ret = "None"

\* The same, when every failure is one of the kinds the except clause names.
C6_OnCaughtKinds ==
    (\A k \in 1..RETRIES : IsFailure(fetch_outs[k]) => Caught(fetch_outs[k]))
        => C6_SafeFetchContract

\* C7: running main twice on the same input leaves the table as one run does.
C7_LoaderIdempotent ==
    (ld[1].pc = "done" /\ ld[1].run = 2) => store = first_run_store.rows

\* The same, for inputs in which every record has an entry_url.
C7_OnKeyedInput ==
    (\A k \in DOMAIN ld[1].data : ld[1].data[k].entry_url # None) => C7_LoaderIdempotent

\* C8: a record whose entry_url is already a key of the table changes no
\* column of the existing row and adds no row: the statement adds nothing to
\* the transaction, and no step changes or removes a row of the table.
C8_ExistingRowUntouched ==
    [][/\ \A k \in DOMAIN store : k \in DOMAIN store' /\ store'[k] = store[k]
       /\ \A k \in DOMAIN store' \ DOMAIN store : ~Conflicts(store, store'[k].url)
       /\ \A l \in Loaders :
             (InTxn(l) /\ ld'[l].idx = ld[l].idx + 1 /\ Conflicts(store, NextRow(l).url))
                => ld'[l].pending = ld[l].pending
      ]_vars

\* The loader has finished over a record whose key was in the table with
\* other field values.
C8_Witness ==
    /\ ld[1].pc = "done"
    /\ \E j \in DOMAIN ld[1].data, k \in DOMAIN store :
          /\ store[k].url = ld[1].data[j].entry_url
          /\ store[k].program = "p0"
          /\ ld[1].data[j].program # "p0"

\* C9: the count main reports is the number of rows this invocation added to
\* the table.
C9_ReportsRowsAdded ==
    [][\A l \in Loaders :
          (ld[l].pc = "insert" /\ ld'[l].pc = "done")
             => ld'[l].reported = Len(store') - Len(store)
      ]_vars

\* An invocation has reported fewer rows than its input has records, and at
\* least one.
C9_Witness ==
    /\ ld[1].pc = "done"
    /\ ld[1].reported >= 1
    /\ ld[1].reported < Len(ld[1].data)

UrlsOf(data) == {data[k].entry_url : k \in DOMAIN data} \ {None}
SharedKeys == UrlsOf(cleaned_file.data[1]) \cap UrlsOf(cleaned_file.data[2])
Ended(l) == ld[l].pc \notin {"start", "insert"}

\* C10: two invocations at once whose inputs share a key end with exactly one
\* row for that key, and neither invocation fails.
C10_RaceSkipsSilently ==
    (SharedKeys # {} /\ \A l \in Loaders : Ended(l)) =>
        /\ \A l \in Loaders : ld[l].pc = "done"
        /\ \A u \in SharedKeys : Cardinality({k \in DOMAIN store : store[k].url = u}) = 1

\* The same, for inputs that share exactly one key.
C10_OnOneSharedKey ==
    Cardinality(SharedKeys) = 1 => C10_RaceSkipsSilently

(***************************************************************************)
(* The Flask application.                                                  *)
(***************************************************************************)
\* C11: at most one thread is between the first stage and the end of the
\* finally block of run_update_pipeline at any time, and a thread that enters
\* run_update_pipeline while job_running is set returns without running a
\* stage and leaves job_running and job_last_message as they were.
C11_OnePipelineAtATime ==
    /\ [](Cardinality({t \in PullRequests : Executing(t)}) <= 1)
    /\ [][\A t \in PullRequests :
            (thread[t] = "started" /\ thread'[t] # "started" /\ job_running)
            => /\ thread'[t] = "returned_early"
               /\ job_running' = job_running
               /\ job_last_message' = job_last_message]_vars

\* A thread has returned at once while the thread of another request is in a stage.
C11_Witness ==
    \E t, u \in PullRequests : thread[t] = "returned_early" /\ thread[u] \in Stages

\* A pull is in progress from the start of its thread to the end of the
\* thread's run_update_pipeline.
PullInProgress == \E t \in PullRequests : thread[t] = "started" \/ Executing(t)

ThreadsStartedBy(r) == {t \in PullRequests : thread[t] = "none" /\ thread'[t] # "none"}

\* C12: a POST /pull-data sent while a pull is in progress is answered 409
\* and starts no thread; one answered 202 was sent while no pull was in
\* progress and starts exactly one thread.
C12_PullAnswers ==
    [][\A r \in PullRequests :
         (pull_status[r] = 0 /\ pull_status'[r] # 0)
         => /\ PullInProgress => (pull_status'[r] = 409 /\ thread' = thread)
            /\ pull_status'[r] = 202 =>
                 (~PullInProgress /\ Cardinality(ThreadsStartedBy(r)) = 1)]_vars

\* What pull_data does guarantee: the same with job_running for "in progress".
C12_WhileJobRunning ==
    [][\A r \in PullRequests :
         (pull_status[r] = 0 /\ pull_status'[r] # 0)
         => /\ job_running => (pull_status'[r] = 409 /\ thread' = thread)
            /\ pull_status'[r] = 202 =>
                 (~job_running /\ Cardinality(ThreadsStartedBy(r)) = 1)]_vars

PipelineRunning == \E t \in PullRequests : Executing(t)

\* C13: a step of a POST /update-analysis handler taken while an update
\* pipeline is running changes neither analysis_cache nor
\* analysis_last_updated, and a handler that starts then answers 409.
C13_NoRefreshWhileRunning ==
    [][\A h \in RefreshRequests :
         (ua'[h] # ua[h] /\ PipelineRunning)
         => /\ analysis_cache' = analysis_cache
            /\ analysis_last_updated' = analysis_last_updated
            /\ ua[h] = "new" => ua_status'[h] = 409]_vars

\* What update_analysis does guarantee: a handler that finds job_running set
\* when it tests it answers 409 and changes nothing.
C13_BusyAtTheTest ==
    [][\A h \in RefreshRequests :
         (ua[h] = "new" /\ ua'[h] # "new" /\ job_running)
         => /\ analysis_cache' = analysis_cache
            /\ analysis_last_updated' = analysis_last_updated
            /\ ua_status'[h] = 409]_vars

\* C14: whenever a thread is in a stage of run_update_pipeline, a state
\* follows in which that thread has left the function, job_running is false
\* and job_last_message is one of the three outcome messages.
C14_JobEventuallyReset ==
    \A t \in PullRequests :
        (thread[t] \in Stages)
        ~> (thread[t] = "finished" /\ ~job_running /\ job_last_message \in Outcomes)

\* A run that crashed has reset the flag.
C14_Witness ==
    \E t \in PullRequests :
        thread[t] = "finished" /\ ~job_running /\ job_last_message = MsgCrashed

(***************************************************************************)
(* Interrupts, checkpoints and the detail stage of scrape_data.            *)
(***************************************************************************)
\* C15: the step in which a KeyboardInterrupt reaches the try block writes a
\* checkpoint that holds every record of the list as it is at that moment,
\* and no step after an interrupt fetches a listing page (page and page_log
\* stay as they are).
C15_InterruptCheckpoints ==
    [][/\ (~interrupted /\ interrupted' /\ InTry)
          => (checkpoint'.written /\ checkpoint'.data = records /\ records' = records)
       /\ interrupted => (page' = page /\ page_log' = page_log)]_vars

\* The traversal was interrupted before its last page, with records in hand.
C15_Witness ==
    /\ interrupted /\ pc = "final" /\ page < SURVEY_PAGES
    /\ records # <<>>
    /\ checkpoint.written /\ checkpoint.data = records

\* C16: once an interrupt has been delivered no detail task is submitted.
C16_NoDetailAfterInterrupt ==
    [][interrupted => dispatch_count' = dispatch_count]_vars

\* The records queued for detail fetching and not yet dispatched, and the
\* records whose task is in flight.
PendingDetail ==
    {i \in Range(chunk_new_indices) : dispatch_count[i] = 0}
        \cup {i \in DOMAIN futures : futures[i] = "pending"}

InterruptStep == ~interrupted /\ interrupted' /\ pc' = "final"

\* The steps that call save_data: the return of the detail stage at early stop
\* or at a chunk boundary, the final save, and the interrupt handler.
SaveStep ==
    \/ InterruptStep
    \/ pc = "detail_wait" /\ pc' \in {"final", "sleep"}
    \/ pc = "finalsave" /\ pc' = "done"

\* C17: at every step that writes a checkpoint (chunk boundary, early stop,
\* interrupt, final save) no record is queued for detail fetching or has its
\* task in flight.
C17_CheckpointsHoldNoPending ==
    [][SaveStep => PendingDetail = {}]_vars

\* What the code does guarantee: the same for every checkpoint but the one
\* the interrupt handler writes.
C17_CheckpointsButInterruptHoldNoPending ==
    [][(SaveStep /\ ~InterruptStep) => PendingDetail = {}]_vars

FailedTasks == {i \in DOMAIN futures : futures[i] \in {"raised", "returned_late"}}

\* C18: while the futures of a chunk are consumed, failed counts the tasks
\* that raised or took longer than DETAIL_FUTURE_TIMEOUT_S, and the record of
\* each such task has every detail field absent.
C18_FailedTaskContract ==
    pc = "detail_wait"
    => /\ failed = Cardinality(FailedTasks)
       /\ \A i \in FailedTasks : records[i].detail = AbsentDetail

\* What the loop does guarantee: a task that raises is counted as failed,
\* changes no record, and leaves the loop and the other futures as they are.
C18_RaisedTaskContract ==
    [][\A i \in DOMAIN futures \cap DOMAIN futures' :
         (futures[i] = "pending" /\ futures'[i] = "raised")
         => /\ failed' = failed + 1
            /\ records' = records
            /\ pc' = "detail_wait"
            /\ \A j \in DOMAIN futures \ {i} : (futures'[j] = futures[j])]_vars

\* What the task of record j can return: the fields parsed from the page of
\* its own URL, or no field at all.
OwnResults(j) == {EmptyDetail} \cup {ParsedDetail(records[j].entry_url, d) : d \in DegreeValues}

\* A step that changes a record changes the record of a future it consumes,
\* in its detail fields only, to a result of that record's own task.
OnlyOwnRecordsChange ==
    /\ Len(records') = Len(records)
    /\ \A j \in DOMAIN records :
         records'[j] # records[j]
         => /\ j \in DOMAIN futures /\ futures[j] = "pending"
            /\ futures'[j] \in {"returned", "returned_late"}
            /\ records'[j] = [records[j] EXCEPT !.detail = records'[j].detail]
            /\ records'[j].detail \in OwnResults(j)

\* C19: in the detail stage a record changes only in the step that consumes
\* its own future, only in its detail fields, and to the result of its own
\* task; records outside the dispatched indices do not change.
C19_TaskWritesOwnRecord ==
    [][(pc = "detail" \/ pc = "detail_wait") => OnlyOwnRecordsChange]_vars

\* The later of two tasks has been applied first, to its own record.
C19_Witness ==
    /\ pc = "detail_wait"
    /\ \E i, j \in DOMAIN futures :
         /\ i < j
         /\ futures[i] = "pending" /\ records[i].detail = AbsentDetail
         /\ futures[j] = "returned"
         /\ records[j].detail = ParsedDetail(records[j].entry_url, "PhD")

(***************************************************************************)
(* End to end.                                                             *)
(***************************************************************************)
\* C20: on the two-page site the cleaned output has exactly 3 records, and
\* the record of the URL whose detail fetch failed has no detail field.
C20_EndToEnd ==
    pc = "cleaned"
    => /\ Len(cleaned_file.data[1]) = 3
       /\ \A k \in DOMAIN cleaned_file.data[1] :
            cleaned_file.data[1][k].entry_url = NewUrl(site)
            => cleaned_file.data[1][k].degree = "None"

\* What the code does produce: one record per distinct valid URL, in the
\* order found, the failed one without detail fields; the row without a
\* result link is in neither the raw nor the cleaned output.
C20_TwoRecords ==
    pc = "cleaned"
    => /\ Len(cleaned_file.data[1]) = 2
       /\ cleaned_file.data[1][1] = [entry_url |-> RowUrl(site[1][1], 1), degree |-> "PhD"]
          \/ cleaned_file.data[1][1] = [entry_url |-> RowUrl(site[1][2], 1), degree |-> "PhD"]
       /\ cleaned_file.data[1][2] = [entry_url |-> NewUrl(site), degree |-> "None"]

PathStartsWithResult(url) == url.abs /\ Len(url.segs) >= 2 /\ url.segs[1] = "result"

C22_ValidOnlyOnTargetHost ==
    url_call.op = "valid" =>
        (url_call.valid <=>
            /\ url_call.x.netloc \in {"thegradcafe.com", "www.thegradcafe.com"}
            /\ PathStartsWithResult(url_call.x))

\* What holds instead: the host only has to end in "thegradcafe.com".
C22_ValidOnHostSuffix ==
    url_call.op = "valid" =>
        (url_call.valid <=>
            /\ url_call.x.netloc \in
                  {"thegradcafe.com", "www.thegradcafe.com", "notthegradcafe.com"}
            /\ PathStartsWithResult(url_call.x))

(***************************************************************************)
(* C23: when the cleaned update file is absent, main raises                *)
(* FileNotFoundError as its first step: no connection is opened (the       *)
(* loader never enters its transaction), no row is inserted, and the       *)
(* table is unchanged.                                                     *)
(***************************************************************************)
MissingFileStep ==
    ~cleaned_file.exists =>
        /\ store' = store
        /\ \A l \in Loaders :
              /\ ~InTxn(l)'
              /\ ld'[l].pending = <<>> /\ ld'[l].inserted = 0
              /\ (ld[l].pc = "start" /\ ld'[l] # ld[l]) => ld'[l].pc = "FileNotFoundError"

C23_MissingFileRaisesFirst == [][MissingFileStep]_vars

C23_Witness ==
    /\ ~cleaned_file.exists
    /\ ld[1].pc = "FileNotFoundError"
    /\ store # <<>>

(***************************************************************************)
(* C24: the stages of a run start in the order SCRAPE, CLEAN, LOAD, each   *)
(* only by the successful exit of the one before it; the table changes     *)
(* only by a LOAD that exits successfully; and when a stage fails the run  *)
(* goes to its finally block with the table as it was and                  *)
(* job_last_message naming the failure, and runs no stage afterwards.      *)
(***************************************************************************)
StageFails(t) == thread[t] \in {"SCRAPE", "CLEAN", "LOAD"} /\ thread'[t] = "finally"

StagesInOrderStep ==
    /\ \A t \in PullRequests :
          /\ (thread'[t] = "SCRAPE" /\ thread[t] # "SCRAPE") => thread[t] = "started"
          /\ (thread'[t] = "CLEAN" /\ thread[t] # "CLEAN") =>
                thread[t] = "SCRAPE" /\ job_last_message' = MsgStarted
          /\ (thread'[t] = "LOAD" /\ thread[t] # "LOAD") =>
                thread[t] = "CLEAN" /\ job_last_message' = MsgStarted
          /\ StageFails(t) =>
                db_version' = db_version /\ job_last_message' \in {MsgFailed, MsgCrashed}
          /\ thread[t] = "finally" =>
                thread'[t] \in {"finally", "finished"} /\ db_version' = db_version
          /\ thread[t] = "finished" => thread'[t] = "finished"
    /\ db_version' # db_version =>
          \E t \in PullRequests :
              thread[t] = "LOAD" /\ thread'[t] = "report" /\ job_last_message' = MsgStarted

C24_StagesInOrder == [][StagesInOrderStep]_vars

\* A run one of whose stages failed: it has ended, the table is as it was and
\* the message is the failure message.
C24_Witness ==
    \E t \in PullRequests :
        /\ thread[t] = "finished"
        /\ job_last_message = MsgFailed
        /\ db_version = 0
        /\ ~job_running

(***************************************************************************)
(* C25: when the detail fetch of a chunk returns, the checkpoint file is   *)
(* written with all of the records in memory, and the loop goes on to its  *)
(* sleep (or, at an early stop, leaves the loop): the next listing page is *)
(* fetched only after that.                                                *)
(***************************************************************************)
ChunkDetailReturns ==
    /\ pc = "detail_wait" /\ detail_ctx \in {"chunk", "early"}
    /\ pc' # "detail_wait" /\ interrupted' = interrupted

CheckpointAfterChunkStep ==
    ChunkDetailReturns =>
        /\ checkpoint' = [written |-> TRUE, data |-> records']
        /\ pc' = IF detail_ctx = "chunk" THEN "sleep" ELSE "final"

C25_CheckpointAfterChunk == [][CheckpointAfterChunkStep]_vars

\* After the chunk ending at page CHUNK_SURVEY_PAGES, before the next page.
C25_Witness ==
    /\ pc = "sleep" /\ page = CHUNK_SURVEY_PAGES /\ page < SURVEY_PAGES
    /\ \E i \in DOMAIN dispatch_count : dispatch_count[i] > 0
    /\ records # <<>>
    /\ checkpoint = [written |-> TRUE, data |-> records]

(***************************************************************************)
(* C26: whenever the page after a chunk boundary is about to be fetched,   *)
(* the queue of new records is empty: at the boundary every queued record  *)
(* was dispatched for its detail fetch.                                    *)
(***************************************************************************)
AfterChunkBoundary == pc = "loop" /\ page > 1 /\ (page - 1) % CHUNK_SURVEY_PAGES = 0

C26_QueueEmptyAfterBoundary == AfterChunkBoundary => chunk_new_indices = <<>>

\* What holds instead: the queue is empty when the boundary page itself was fetched.
C26_QueueEmptyAfterFetchedBoundary ==
    (AfterChunkBoundary /\ page_log[Len(page_log)].fetched) => chunk_new_indices = <<>>

(***************************************************************************)
(* C30: the inter-page delay follows every listing-page fetch, failed or   *)
(* not: the loop never goes from one fetch straight to the next.           *)
(***************************************************************************)
C30_DelayAfterEveryFetch == [][pc = "loop" => pc' # "loop"]_vars

\* What holds instead: only a failed fetch is followed at once by the next.
C30_DelayAfterFetchedPage ==
    [][(pc = "loop" /\ pc' = "loop" /\ page' # page)
          => ~page_log'[Len(page_log')].fetched]_vars

(***************************************************************************)
(* C29: _safe_fetch_html sleeps BACKOFF_S * k after failed attempt k and   *)
(* only between attempts: a call that made n attempts has slept n - 1      *)
(* times, so nothing follows a successful or the final failed attempt.     *)
(***************************************************************************)
Backoffs(n) == [k \in 1..n |-> BACKOFF_HALF_S * k]

C29_BackoffOnlyBetweenAttempts ==
    fetch_res.ret # "pending" => fetch_res.sleeps = Backoffs(fetch_res.attempts - 1)

\* What holds instead: every caught failure is followed by its sleep, the
\* last one included.
C29_BackoffAfterEveryCaughtFailure ==
    fetch_res.ret # "pending" =>
        fetch_res.sleeps =
            Backoffs(IF fetch_res.ret = "None" THEN RETRIES ELSE fetch_res.attempts - 1)

(***************************************************************************)
(* C27: at every moment at most MAX_WORKERS detail tasks are executing,    *)
(* however many tasks were submitted; the others wait in the queue, and    *)
(* every submitted task is eventually executed.                            *)
(***************************************************************************)
WorkerCap == Cardinality(Running) <= MAX_WORKERS

C27_WorkerCapAndProgress ==
    /\ []WorkerCap
    /\ \A i \in 1..MaxTasks :
          (i \in PoolTasks /\ pool[i] = "queued") ~> (i \in PoolTasks /\ Executed(i))

\* Every worker is busy and a submitted task waits.
C27_Witness ==
    /\ Cardinality(Running) = MAX_WORKERS
    /\ \E i \in PoolTasks : pool[i] = "queued"

(***************************************************************************)
(* C28: a detail task that takes longer than DETAIL_FUTURE_TIMEOUT_S is    *)
(* counted as failed, not as updated, when the loop over the futures       *)
(* comes to it, and the chunk goes on.                                     *)
(***************************************************************************)
LateTaskStep(i) == futures[i] = "pending" /\ futures'[i] = "returned_late"

C28_LateTaskCountedFailed ==
    [][\A i \in DOMAIN futures \cap DOMAIN futures' :
         LateTaskStep(i) => (failed' = failed + 1 /\ updated' = updated)]_vars

\* What the loop does: it waits for every task to end, however long that
\* takes, and counts a task that returned as updated.
C28_WaitEndsWhenAllTasksEnded ==
    [][/\ (pc = "detail_wait" /\ pc' # "detail_wait" /\ interrupted' = interrupted)
            => AllDone
       /\ \A i \in DOMAIN futures \cap DOMAIN futures' :
            LateTaskStep(i) => (failed' = failed /\ updated' = updated + 1)]_vars

(***************************************************************************)
(* C31: a run that reaches its end (after the last page, an early stop or  *)
(* an interrupt in the try block) has written a checkpoint that is the     *)
(* whole record list, and a checkpoint never lacks a record that the       *)
(* checkpoint before it held: record k of the old file is record k of the  *)
(* new one, with the same entry_url.                                       *)
(***************************************************************************)
FinalCheckpointComplete == pc = "done" => checkpoint = [written |-> TRUE, data |-> records]

CheckpointKeepsRecords ==
    \A k \in DOMAIN checkpoint.data :
        /\ k \in DOMAIN checkpoint'.data
        /\ checkpoint'.data[k].entry_url = checkpoint.data[k].entry_url

C31_ProgressNeverLost == []FinalCheckpointComplete /\ [][CheckpointKeepsRecords]_vars

\* An interrupted run that ended with two records, both in the file.
C31_Witness ==
    /\ pc = "done" /\ interrupted
    /\ Len(records) = 2
    /\ checkpoint = [written |-> TRUE, data |-> records]

(***************************************************************************)
(* C32: total_failed_details counts the dispatched records whose detail    *)
(* fetch failed: when the loop over the futures comes to a task whose      *)
(* fetch gave None after all RETRIES attempts, failed is incremented, and  *)
(* the call's failed count is added to the total when it returns.          *)
(***************************************************************************)
\* as_completed yields the task of record i, and its fetch had exhausted its retries.
ExhaustedTaskStep(i) ==
    \E o \in TaskOutcomes : \E degree \in DegreeValues :
        o.ret = "None" /\ DetailTaskReturnsWith(i, o, degree)

DetailCallReturns == pc = "detail_wait" /\ pc' # "detail_wait" /\ interrupted' = interrupted

C32_FailedFetchesCounted ==
    [][/\ \A i \in DOMAIN futures : ExhaustedTaskStep(i) => failed' = failed + 1
       /\ DetailCallReturns => total_failed_details' = total_failed_details + failed]_vars

\* What the total counts: the tasks that raised, call by call.
C32_RaisedTasksCounted ==
    [][DetailCallReturns =>
         total_failed_details' =
             total_failed_details + Cardinality({i \in DOMAIN futures : futures[i] = "raised"})]_vars

(***************************************************************************)
(* C33: every record of the list, and of the checkpoint file, has an       *)
(* entry_url that is present, is its own canonical form and passes         *)
(* _valid_result_url; a row without a result link or with a link that      *)
(* fails the validation adds no record.                                    *)
(***************************************************************************)
CanonicalValid(url) ==
    /\ url # NoUrl
    /\ _canonical_result_url(url) = url
    /\ _valid_result_url(url)

C33_RecordsHaveValidUrl ==
    /\ \A i \in DOMAIN records : CanonicalValid(records[i].entry_url)
    /\ \A i \in DOMAIN checkpoint.data : CanonicalValid(checkpoint.data[i].entry_url)

\* Two records are in the list and in the checkpoint file.
C33_Witness ==
    /\ Len(records) = 2
    /\ checkpoint = [written |-> TRUE, data |-> records]
    /\ \A i \in DOMAIN records : CanonicalValid(records[i].entry_url)

(***************************************************************************)
(* C34: no record is dispatched for its detail fetch more than once in a   *)
(* run, and at the end of the run every record has been dispatched exactly *)
(* once.                                                                   *)
(***************************************************************************)
C34_DispatchedExactlyOnce ==
    /\ DOMAIN dispatch_count = DOMAIN records
    /\ \A i \in DOMAIN dispatch_count : dispatch_count[i] <= 1
    /\ pc = "done" => \A i \in DOMAIN dispatch_count : dispatch_count[i] = 1

\* What holds instead: the same in every run that is not interrupted, and
\* in every run at least once by the end.
C34_DispatchedOnceUnlessInterrupted ==
    /\ DOMAIN dispatch_count = DOMAIN records
    /\ ~interrupted => \A i \in DOMAIN dispatch_count : dispatch_count[i] <= 1
    /\ pc = "done" => \A i \in DOMAIN dispatch_count : dispatch_count[i] >= 1

(***************************************************************************)
(* C35: scrape_data terminates.  The loop fetches page 1, 2, ... in order, *)
(* each once and none beyond SURVEY_PAGES; and however the loop is left    *)
(* (its last page, the early stop, Ctrl-C in the try block) the run comes  *)
(* to its final save, unless an exception leaves scrape_data: a listing    *)
(* fetch that raises, or a KeyboardInterrupt outside the try block.        *)
(***************************************************************************)
PagesInOrderStep ==
    /\ page' \in {page, page + 1}
    /\ (pc' = "loop" /\ <<pc', page'>> # <<pc, page>>) => page' = page + 1
    /\ pc = "loop" => page \in 1..SURVEY_PAGES
    /\ pc = "done" => pc' = "done"

\* The run has ended: with the final save, or by an exception.
RunEnded == (pc = "done" /\ checkpoint = save_data(records)) \/ pc = "crashed"

C35_ScrapeTerminates == [][PagesInOrderStep]_vars /\ <>RunEnded

\* A run that fetched every page, the last one included, and ended.
C35_Witness ==
    /\ pc = "done" /\ ~interrupted
    /\ page = SURVEY_PAGES + 1
    /\ checkpoint = save_data(records)

(***************************************************************************)
(* C36: the tasks of a call of _fetch_details_for_indices are the indices  *)
(* whose URL is valid; when the call returns, every one of them has been   *)
(* counted once, as updated or as failed; and a task whose fetch gave None *)
(* after all its retries returns the all-None fields, which are written to *)
(* its record, and is counted as updated.                                  *)
(***************************************************************************)
DetailCountsStep ==
    /\ (pc = "detail" /\ pc' = "detail_wait") =>
          /\ DOMAIN futures' = DetailTasks(records, chunk_new_indices)
          /\ updated' = 0 /\ failed' = 0
    /\ DetailCallReturns =>
          /\ AllDone
          /\ updated + failed = Cardinality(DOMAIN futures)
    /\ \A i \in DOMAIN futures :
          ExhaustedTaskStep(i) =>
              /\ records'[i].detail = EmptyDetail
              /\ updated' = updated + 1
              /\ failed' = failed

C36_UpdatedPlusFailed == [][DetailCountsStep]_vars

\* A call with two tasks, one counted as updated and one as failed, about to return.
C36_Witness ==
    /\ pc = "detail_wait" /\ AllDone
    /\ Cardinality(DOMAIN futures) = 2
    /\ updated = 1 /\ failed = 1
    /\ \E i \in DOMAIN futures : futures[i] \in {"returned", "returned_late"}
                                  /\ records[i].detail = EmptyDetail

(***************************************************************************)
(* C37: the thread of every accepted POST /pull-data (answered 202) runs   *)
(* the pipeline: no second request is accepted before the thread of the    *)
(* first has set job_running, so no thread leaves run_update_pipeline at   *)
(* its "if job_running: return".                                           *)
(***************************************************************************)
C37_AcceptedPullRuns ==
    /\ \A t \in PullRequests : pull_status[t] = 202 => thread[t] # "returned_early"
    /\ Cardinality({t \in PullRequests : thread[t] = "started"}) <= 1

\* What holds instead: a thread returns early only while another run holds
\* job_running, and a request is accepted only while job_running is false.
C37_EarlyReturnOnlyWhileRunning ==
    [][\A t \in PullRequests :
         /\ (thread[t] = "started" /\ thread'[t] = "returned_early") => job_running
         /\ (thread[t] = "none" /\ thread'[t] = "started") => ~job_running]_vars
====
